---- MODULE Spec2Model ----
(***************************************************************************)
(* Model of src/main.py: class CoordinateDrawer.                           *)
(*                                                                         *)
(* Text (file names, calibration lines) is a sequence of one-character     *)
(* strings, so that endswith / in / split / strip / float are computed the *)
(* way Python computes them.  The marker phrase of the calibration file    *)
(* (five CJK characters in the source) is written with the three           *)
(* characters G E O and the full-width colon separator with "|"; the ASCII *)
(* colon ":" stays an ordinary character, as it is for the source.         *)
(*                                                                         *)
(* Geographic values are integers and the arithmetic of _convert_to_pixel  *)
(* and _resize_with_padding is exact rational arithmetic followed by       *)
(* int(), i.e. truncation toward zero.  Rounding of binary64 is not part   *)
(* of the model.                                                           *)
(***************************************************************************)
EXTENDS Integers, Sequences, FiniteSets, TLC

VARIABLES
    listing,        \* os.listdir(folder_path): file names in listing order
    disk,           \* file name -> content (image or text lines)
    display_size,   \* self.display_size = <<target_width, target_height>>
    phase,          \* "unbuilt" | "ready" | "failed" (constructor raised)
    op,             \* the last operation run: "none" | "init" | "convert" | "draw" | "range"
    err,            \* exception raised by the last operation, or NoError
    image_path,     \* self.image_path, <<>> for None
    txt_path,       \* self.txt_path, <<>> for None
    corner_points,  \* self.corner_points, <<>> for None
    heap,           \* image objects: reference (index) -> pixel array
    original_image, \* self.original_image: reference into heap, 0 for None
    lon_range,      \* self.lon_range, <<>> for None
    lat_range,      \* self.lat_range, <<>> for None
    args,           \* arguments of the last convert / draw call
    circles,        \* cv2.circle calls of the last draw, in call order
    resized,        \* dsize handed to cv2.resize by the last draw, <<>> if none
    shown,          \* canvas handed to the viewer by the last draw
    returned,       \* image returned by the last draw: reference into heap, 0 if none
    pixels,         \* values _convert_to_pixel returned during the last draw, in call order
    coordinate_range \* value returned by the last get_coordinate_range call

vars == <<listing, disk, display_size, phase, op, err, image_path, txt_path,
          corner_points, heap, original_image, lon_range, lat_range, args,
          circles, resized, shown, returned, pixels, coordinate_range>>

----------------------------------------------------------------------------
(* Bounds of the model *)

MaxFiles == 3       \* files in the directory
MaxLines == 5       \* lines in the calibration file
MaxGeo == 2         \* corner values range over 0..MaxGeo
MaxDim == 3         \* image and canvas dimensions range over 1..MaxDim
MaxCoords == 2      \* length of the coordinate list of a draw call

----------------------------------------------------------------------------
(* Python text primitives *)

NoError == "none"
None == <<>>

\* str.endswith(suffix)
EndsWith(s, suffix) ==
    /\ Len(s) >= Len(suffix)
    /\ SubSeq(s, Len(s) - Len(suffix) + 1, Len(s)) = suffix

\* sub in s
Contains(s, sub) ==
    \E i \in 1..(Len(s) - Len(sub) + 1) : SubSeq(s, i, i + Len(sub) - 1) = sub

\* s.split(sep)[-1] for a one-character separator: the text after the last
\* occurrence of sep, the whole text when sep does not occur
AfterLast(s, sep) ==
    IF \A i \in 1..Len(s) : s[i] # sep THEN s
    ELSE SubSeq(s, (CHOOSE i \in 1..Len(s) :
                      s[i] = sep /\ \A j \in (i + 1)..Len(s) : s[j] # sep) + 1,
                Len(s))

IsSpace(c) == c \in {" ", "\n"}

\* s.strip()
Strip(s) ==
    IF \A i \in 1..Len(s) : IsSpace(s[i]) THEN <<>>
    ELSE SubSeq(s,
                CHOOSE i \in 1..Len(s) :
                    ~IsSpace(s[i]) /\ \A j \in 1..(i - 1) : IsSpace(s[j]),
                CHOOSE i \in 1..Len(s) :
                    ~IsSpace(s[i]) /\ \A j \in (i + 1)..Len(s) : IsSpace(s[j]))

\* s.split(sep) for a one-character separator: always at least one field
RECURSIVE Split(_, _)
\* the field before the separator at position i, then the fields after it
SplitAt(s, sep, i) == <<SubSeq(s, 1, i - 1)>> \o Split(SubSeq(s, i + 1, Len(s)), sep)
Split(s, sep) ==
    IF \A i \in 1..Len(s) : s[i] # sep THEN <<s>>
    ELSE SplitAt(s, sep, CHOOSE i \in 1..Len(s) :
                           s[i] = sep /\ \A j \in 1..(i - 1) : s[j] # sep)

Digits == <<"0", "1", "2", "3", "4", "5", "6", "7", "8", "9">>
IsDigit(c) == \E d \in 1..10 : Digits[d] = c
DigitVal(c) == (CHOOSE d \in 1..10 : Digits[d] = c) - 1

RECURSIVE DigitsVal(_)
DigitsVal(s) ==
    IF s = <<>> THEN 0
    ELSE 10 * DigitsVal(SubSeq(s, 1, Len(s) - 1)) + DigitVal(s[Len(s)])

\* float(s): surrounding whitespace is accepted, then an optional sign and
\* a non-empty run of digits; anything else raises ValueError
IsSigned(t) == t # <<>> /\ t[1] \in {"-", "+"}
Unsigned(t) == IF IsSigned(t) THEN Tail(t) ELSE t
FloatOfDigits(negative, body) ==
    IF body # <<>> /\ \A i \in 1..Len(body) : IsDigit(body[i])
    THEN [ok |-> TRUE,
          value |-> IF negative THEN 0 - DigitsVal(body) ELSE DigitsVal(body)]
    ELSE [ok |-> FALSE, value |-> 0]
FloatOfStripped(t) == FloatOfDigits(t # <<>> /\ t[1] = "-", Unsigned(t))
Float(s) == FloatOfStripped(Strip(s))

\* str(n) for an integer
RECURSIVE NatStr(_)
NatStr(n) == IF n < 10 THEN <<Digits[n + 1]>>
             ELSE NatStr(n \div 10) \o <<Digits[(n % 10) + 1]>>
IntStr(n) == IF n < 0 THEN <<"-">> \o NatStr(0 - n) ELSE NatStr(n)

----------------------------------------------------------------------------
(* Program constants *)

PngExt == <<".", "p", "n", "g">>
TxtExt == <<".", "t", "x", "t">>
Marker == <<"G", "E", "O">>
Sep == "|"
Comma == ","
Gray == 128

(* Exceptions, named by type and raise site *)
FileNotFoundError == "FileNotFoundError"
ImageValueError == "ValueError: image"
FloatValueError == "ValueError: float"
CornersValueError == "ValueError: corners"
IndexError == "IndexError"
ZeroDivisionError == "ZeroDivisionError"
Cv2Error == "cv2.error"

----------------------------------------------------------------------------
(* Images: height x width x 3 arrays of bytes; a pixel is a BGR triple *)

Pixels(w, h) == (0..(w - 1)) \X (0..(h - 1))

NoImage == [readable |-> FALSE, width |-> 0, height |-> 0, pix |-> <<>>]

PyIntFloor(p, q) == IF q > 0 THEN p \div q ELSE (0 - p) \div (0 - q)

\* int(p / q) for the rational p / q, q # 0: truncation toward zero
PyInt(p, q) ==
    LET n == IF q > 0 THEN p ELSE 0 - p
        d == IF q > 0 THEN q ELSE 0 - q
    IN  IF n >= 0 THEN n \div d ELSE 0 - ((0 - n) \div d)

----------------------------------------------------------------------------
(* _initialize, lines 29-33: the scan of the directory listing *)

RECURSIVE ScanListing(_, _, _)
ScanListing(files, image, txt) ==
    IF files = <<>> THEN [image_path |-> image, txt_path |-> txt]
    ELSE LET file == Head(files)
         IN  IF EndsWith(file, PngExt) THEN ScanListing(Tail(files), file, txt)
             ELSE IF EndsWith(file, TxtExt) THEN ScanListing(Tail(files), image, file)
             ELSE ScanListing(Tail(files), image, txt)

(* _read_corner_points *)

\* lines 51-52: the fields of one marker line, parsed
MapFloat(coords) == [i \in 1..Len(coords) |-> Float(coords[i])]
ListOfFloats(floats) ==
    [ok |-> \A i \in 1..Len(floats) : floats[i].ok,
     point |-> [i \in 1..Len(floats) |-> floats[i].value]]
ParseLine(line) == ListOfFloats(MapFloat(Split(Strip(AfterLast(line, Sep)), Comma)))

RECURSIVE ReadLines(_, _)
\* line 52: the parsed line is appended, or float() has raised
AppendParsed(lines, points, parsed) ==
    IF parsed.ok THEN ReadLines(Tail(lines), Append(points, parsed.point))
    ELSE [err |-> FloatValueError, points |-> points]
ReadLines(lines, points) ==
    IF lines = <<>> THEN [err |-> NoError, points |-> points]
    ELSE IF Contains(Head(lines), Marker)
         THEN AppendParsed(lines, points, ParseLine(Head(lines)))
         ELSE ReadLines(Tail(lines), points)

\* lines 53-55
FourPoints(read) ==
    IF read.err # NoError THEN [err |-> read.err, points |-> None]
    ELSE IF Len(read.points) # 4 THEN [err |-> CornersValueError, points |-> None]
    ELSE [err |-> NoError, points |-> read.points]
ReadCornerPoints(lines) == FourPoints(ReadLines(lines, <<>>))

SetCoordinateRangeRightTop(points) ==
    [err |-> NoError,
     lon_range |-> <<points[2][1], points[4][1]>>,
     lat_range |-> <<points[1][2], points[3][2]>>]

(* _set_coordinate_range *)
SetCoordinateRange(points) ==
    LET left_bottom == points[1]
        left_top == points[2]
        right_bottom == points[4]
    IN  IF Len(left_bottom) < 2 \/ Len(left_top) < 2
        THEN [err |-> IndexError,
              lon_range |-> <<left_top[1], right_bottom[1]>>, lat_range |-> None]
        ELSE [err |-> NoError,
              lon_range |-> <<left_top[1], right_bottom[1]>>,
              lat_range |-> <<left_bottom[2], left_top[2]>>]

ConvertToPixelRightTop(image, points, lon, lat) ==
    LET left_top == points[2]
        right_top == points[3]
    IN  IF right_top[1] - left_top[1] = 0 \/ right_top[2] - left_top[2] = 0
        THEN [err |-> ZeroDivisionError, x |-> 0, y |-> 0]
        ELSE [err |-> NoError,
              x |-> PyInt((lon - left_top[1]) * image.width,
                          right_top[1] - left_top[1]),
              y |-> PyInt((lat - left_top[2]) * image.height,
                          right_top[2] - left_top[2])]

(* _convert_to_pixel *)
ConvertToPixel(image, points, lon, lat) ==
    LET left_top == points[2]
        right_bottom == points[4]
    IN  IF right_bottom[1] - left_top[1] = 0
        THEN [err |-> ZeroDivisionError, x |-> 0, y |-> 0]
        ELSE IF Len(right_bottom) < 2
        THEN [err |-> IndexError, x |-> 0, y |-> 0]
        ELSE IF right_bottom[2] - left_top[2] = 0
        THEN [err |-> ZeroDivisionError, x |-> 0, y |-> 0]
        ELSE [err |-> NoError,
              x |-> PyInt((lon - left_top[1]) * image.width,
                        right_bottom[1] - left_top[1]),
              y |-> PyInt((lat - left_top[2]) * image.height,
                        right_bottom[2] - left_top[2])]

(* _resize_with_padding *)

\* cv2.resize(image, (new_width, new_height), INTER_AREA): each output pixel
\* takes the source pixel at the start of the source area it covers
Resize(image, new_width, new_height) ==
    [readable |-> TRUE, width |-> new_width, height |-> new_height,
     pix |-> [p \in Pixels(new_width, new_height) |->
                image.pix[<<(p[1] * image.width) \div new_width,
                            (p[2] * image.height) \div new_height>>]]]

\* lines 76-78, 84-85: scale = min(target_width / img_width,
\* target_height / img_height) kept as a fraction num / den
Centred(new_width, new_height, target_width, target_height) ==
    [new_width |-> new_width, new_height |-> new_height,
     x_offset |-> (target_width - new_width) \div 2,
     y_offset |-> (target_height - new_height) \div 2]

Scaled(img_width, img_height, target_width, target_height, num, den) ==
    Centred(PyInt(img_width * num, den), PyInt(img_height * num, den),
            target_width, target_height)

Letterbox(img_width, img_height, target_width, target_height) ==
    IF target_width * img_height <= target_height * img_width
    THEN Scaled(img_width, img_height, target_width, target_height,
                target_width, img_width)
    ELSE Scaled(img_width, img_height, target_width, target_height,
                target_height, img_height)

\* lines 80, 86: the gray canvas with the resized image pasted at the offsets
Paste(resized_img, box, target_width, target_height) ==
    [readable |-> TRUE, width |-> target_width, height |-> target_height,
     pix |-> [p \in Pixels(target_width, target_height) |->
                IF /\ box.x_offset <= p[1]
                   /\ p[1] < box.x_offset + box.new_width
                   /\ box.y_offset <= p[2]
                   /\ p[2] < box.y_offset + box.new_height
                THEN resized_img.pix[<<p[1] - box.x_offset, p[2] - box.y_offset>>]
                ELSE <<Gray, Gray, Gray>>]]

\* lines 80-87: cv2.resize raises on an empty dsize
PadTo(image, box, target_width, target_height) ==
    IF box.new_width < 1 \/ box.new_height < 1
    THEN [err |-> Cv2Error, dsize |-> <<box.new_width, box.new_height>>,
          box |-> box, display_img |-> NoImage]
    ELSE [err |-> NoError, dsize |-> <<box.new_width, box.new_height>>,
          box |-> box,
          display_img |-> Paste(Resize(image, box.new_width, box.new_height),
                                box, target_width, target_height)]

ResizeWithPadding(image, size) ==
    PadTo(image, Letterbox(image.width, image.height, size[1], size[2]),
          size[1], size[2])

\* cv2.cvtColor(image, COLOR_BGR2RGB)
CvtColor(image) ==
    [image EXCEPT !.pix = [p \in DOMAIN image.pix |->
                             <<image.pix[p][3], image.pix[p][2], image.pix[p][1]>>]]

(* draw *)

\* cv2.circle(image, center, radius, color, -1): a filled disc, clipped
Circle(image, center, radius, color) ==
    [image EXCEPT !.pix = [p \in DOMAIN image.pix |->
        IF (p[1] - center[1]) * (p[1] - center[1])
             + (p[2] - center[2]) * (p[2] - center[2]) <= radius * radius
        THEN color ELSE image.pix[p]]]

InBoundsInclusive(x, y, image) ==
    /\ 0 <= x /\ x <= image.width
    /\ 0 <= y /\ y <= image.height

\* line 101
InBounds(x, y, image) ==
    /\ 0 <= x /\ x < image.width
    /\ 0 <= y /\ y < image.height

CopyImageAlias(h, src) == [heap |-> h, ref |-> src]

\* line 98: the copy is a new object
CopyImage(h, src) == [heap |-> Append(h, h[src]), ref |-> Len(h) + 1]

\* lines 99-102, over the heap h with result_image = h[ref]
RECURSIVE DrawPoints(_, _, _, _, _, _, _, _)
\* lines 101-102 for the pixel px of the first coordinate, then the rest
DrawPoint1(h, ref, self, coordinates, size, color, calls, pxs, px) ==
    IF px.err # NoError
    THEN [err |-> px.err, heap |-> h, calls |-> calls, pixels |-> pxs]
    ELSE IF InBounds(px.x, px.y, h[ref])
    THEN DrawPoints([h EXCEPT ![ref] = Circle(h[ref], <<px.x, px.y>>, size, color)],
                    ref, self, Tail(coordinates), size, color,
                    Append(calls, [center |-> <<px.x, px.y>>,
                                   radius |-> size, color |-> color]),
                    Append(pxs, <<px.x, px.y>>))
    ELSE DrawPoints(h, ref, self, Tail(coordinates), size, color, calls,
                    Append(pxs, <<px.x, px.y>>))

DrawPoints(h, ref, self, coordinates, size, color, calls, pxs) ==
    IF coordinates = <<>>
    THEN [err |-> NoError, heap |-> h, calls |-> calls, pixels |-> pxs]
    ELSE DrawPoint1(h, ref, self, coordinates, size, color, calls, pxs,
                    ConvertToPixel(h[self.original_image], self.corner_points,
                                   Head(coordinates)[1], Head(coordinates)[2]))

\* what a draw call leaves behind: the exception e or the returned reference
DrawResult(e, drawn, ref, dsize, canvas) ==
    [err |-> e, heap |-> drawn.heap, returned |-> ref,
     circles |-> drawn.calls, pixels |-> drawn.pixels,
     resized |-> dsize, shown |-> canvas]

\* lines 104-107
Shown(drawn, ref, display) ==
    IF display.err # NoError THEN DrawResult(display.err, drawn, 0, display.dsize, NoImage)
    ELSE DrawResult(NoError, drawn, ref, display.dsize, CvtColor(display.display_img))

\* lines 103-107
Finish(self, show, ref, drawn) ==
    IF drawn.err # NoError THEN DrawResult(drawn.err, drawn, 0, None, NoImage)
    ELSE IF ~show THEN DrawResult(NoError, drawn, ref, None, NoImage)
    ELSE Shown(drawn, ref, ResizeWithPadding(drawn.heap[ref], self.display_size))

\* lines 99-107 on the copy
DrawOn(copy, self, coordinates, color, size, show) ==
    Finish(self, show, copy.ref,
           DrawPoints(copy.heap, copy.ref, self, coordinates, size, color, <<>>, <<>>))

DrawCall(h, self, coordinates, color, size, show) ==
    DrawOn(CopyImage(h, self.original_image), self, coordinates, color, size, show)

(* __init__ and _initialize *)
\* the object's fields when _initialize returns or raises e
Outcome(e, scan, image, points, lons, lats) ==
    [err |-> e, image_path |-> scan.image_path, txt_path |-> scan.txt_path,
     image |-> image, corner_points |-> points,
     lon_range |-> lons, lat_range |-> lats]

\* line 43
WithRange(scan, image, points, range) ==
    Outcome(range.err, scan, image, points, range.lon_range, range.lat_range)

\* line 41
WithCorners(scan, image, read) ==
    IF read.err # NoError THEN Outcome(read.err, scan, image, None, None, None)
    ELSE WithRange(scan, image, read.points, SetCoordinateRange(read.points))

\* lines 37-39
WithImage(scan, contents, image) ==
    IF ~image.readable THEN Outcome(ImageValueError, scan, NoImage, None, None, None)
    ELSE WithCorners(scan, image, ReadCornerPoints(contents[scan.txt_path].lines))

\* lines 34-35
WithPaths(scan, contents) ==
    IF scan.image_path = None \/ scan.txt_path = None
    THEN Outcome(FileNotFoundError, scan, NoImage, None, None, None)
    ELSE WithImage(scan, contents, contents[scan.image_path].image)

InitializeCall(files, contents) == WithPaths(ScanListing(files, None, None), contents)

----------------------------------------------------------------------------
(* Inputs: directories, files, call arguments *)

APng == <<"a", ".", "p", "n", "g">>
BPng == <<"b", ".", "p", "n", "g">>
MTxt == <<"m", ".", "t", "x", "t">>
NTxt == <<"n", ".", "t", "x", "t">>
RJpg == <<"r", ".", "j", "p", "g">>
FileNames == {APng, BPng, MTxt, NTxt, RJpg}

\* a decodable picture; every pixel has its own colour
Picture(w, h) ==
    [readable |-> TRUE, width |-> w, height |-> h,
     pix |-> [p \in Pixels(w, h) |-> <<10 * p[1], 10 * p[2], 200>>]]

ImageFile(image) == [image |-> image, lines |-> <<>>]
TextFile(lines) == [image |-> NoImage, lines |-> lines]

\* a calibration line: label, marker phrase, separator, value text
GeoLine(label, value) == label \o Marker \o <<Sep>> \o value
PointText(lon, lat) == IntStr(lon) \o <<Comma>> \o IntStr(lat)
Comment == <<"s", "i", "z", "e", Sep, "4", ",", "3">>

\* the four corner lines of a calibration, in file order
CornerLines(lb, lt, rt, rb) ==
    << GeoLine(<<"L", "B", " ">>, PointText(lb[1], lb[2])),
       GeoLine(<<"L", "T", " ">>, PointText(lt[1], lt[2])),
       GeoLine(<<"R", "T", " ">>, PointText(rt[1], rt[2])),
       GeoLine(<<"R", "B", " ">>, PointText(rb[1], rb[2])) >>

Rectangle == CornerLines(<<0, 0>>, <<0, 2>>, <<2, 2>>, <<2, 0>>)

\* the directory's files: a.png and b.png decode, m.txt is a calibration
\* with a comment line, n.txt has three corner lines only
DefaultDisk ==
    [f \in FileNames |->
        CASE f = APng -> ImageFile(Picture(2, 2))
          [] f = BPng -> ImageFile(Picture(3, 1))
          [] f = MTxt -> TextFile(<<Comment>> \o Rectangle)
          [] f = NTxt -> TextFile(SubSeq(Rectangle, 1, 3))
          [] OTHER -> TextFile(<<>>)]

DiskWith(image, lines) ==
    [DefaultDisk EXCEPT ![APng] = ImageFile(image), ![MTxt] = TextFile(lines)]

RECURSIVE SeqsUpTo(_, _)
SeqsUpTo(S, n) ==
    IF n = 0 THEN {<<>>}
    ELSE LET shorter == SeqsUpTo(S, n - 1)
         IN  shorter \cup {Append(q, e) : q \in {r \in shorter : Len(r) = n - 1}, e \in S}

Distinct(q) == \A i, j \in 1..Len(q) : i # j => q[i] # q[j]

Listings == {q \in SeqsUpTo(FileNames, MaxFiles) : Distinct(q)}

LineCatalogue ==
    { GeoLine(<<>>, PointText(0, 2)),
      GeoLine(<<"x", Sep>>, <<" ">> \o PointText(2, 0) \o <<"\n">>),
      GeoLine(<<>>, <<"2", ",", "0", ",", "1">>),
      GeoLine(<<>>, <<"2">>),
      GeoLine(<<>>, <<"2", ",", "x">>),
      Marker \o <<":", "2", ",", "0">>,
      Comment }

CalibrationFiles == {q \in SeqsUpTo(LineCatalogue, MaxLines) : Len(q) >= 3}

Geo == 0..MaxGeo
Around == (0 - 1)..(MaxGeo + 1)
Dims == 1..MaxDim

Green == <<0, 255, 0>>
Red == <<0, 0, 255>>
NoArgs == [coordinates |-> <<>>, color |-> Green, size |-> 0, show |-> FALSE]

----------------------------------------------------------------------------
(* Initial states: the directory before the mapper is constructed *)

Unbuilt ==
    /\ phase = "unbuilt" /\ op = "none" /\ err = NoError
    /\ image_path = None /\ txt_path = None /\ corner_points = None
    /\ heap = <<>> /\ original_image = 0
    /\ lon_range = None /\ lat_range = None
    /\ args = NoArgs /\ circles = <<>> /\ resized = None /\ shown = NoImage
    /\ returned = 0 /\ pixels = <<>> /\ coordinate_range = None

\* any listing of the directory
InitFiles ==
    /\ listing \in Listings
    /\ disk = DefaultDisk
    /\ display_size = <<3, 2>>
    /\ Unbuilt

\* any calibration text
InitCalib ==
    /\ listing = <<APng, MTxt>>
    /\ disk \in {DiskWith(Picture(2, 2), lines) : lines \in CalibrationFiles}
    /\ display_size = <<3, 2>>
    /\ Unbuilt

\* any corner values; every width and every height; the corners the
\* transform does not read vary with e
InitPixel ==
    /\ listing = <<MTxt, APng>>
    /\ disk \in {DiskWith(Picture(w, MaxDim + 1 - w),
                          CornerLines(<<e, e>>, <<a, b>>, <<e, MaxGeo - e>>, <<c, d>>)) :
                   w \in Dims, a \in Geo, b \in Geo, c \in Geo, d \in Geo, e \in Geo}
    /\ display_size = <<3, 2>>
    /\ Unbuilt

\* two mappers, for sequences of draws with many arguments
InitDraw ==
    /\ listing = <<APng, MTxt>>
    /\ disk \in {DiskWith(Picture(w, 2), Rectangle) : w \in {2, 3}}
    /\ display_size = <<3, 2>>
    /\ Unbuilt

\* any image size and canvas size, or a file that does not decode
InitResize ==
    /\ listing = <<APng, MTxt>>
    /\ disk \in {DiskWith(image, Rectangle) :
                   image \in {Picture(w, h) : w \in Dims, h \in Dims} \cup {NoImage}}
    /\ display_size \in Dims \X Dims
    /\ Unbuilt

----------------------------------------------------------------------------
(* Operations *)

env == <<listing, disk, display_size>>
fields == <<image_path, txt_path, corner_points, original_image, lon_range, lat_range>>

\* the object after the constructor call r
Constructed(r) ==
    /\ phase' = IF r.err = NoError THEN "ready" ELSE "failed"
    /\ err' = r.err
    /\ image_path' = r.image_path
    /\ txt_path' = r.txt_path
    /\ corner_points' = r.corner_points
    /\ heap' = IF r.image.readable THEN <<r.image>> ELSE <<>>
    /\ original_image' = IF r.image.readable THEN 1 ELSE 0
    /\ lon_range' = r.lon_range
    /\ lat_range' = r.lat_range

\* CoordinateDrawer(folder_path, display_size)
Initialize ==
    /\ phase = "unbuilt"
    /\ Constructed(InitializeCall(listing, disk))
    /\ op' = "init"
    /\ UNCHANGED <<env, args, circles, resized, shown, returned, pixels, coordinate_range>>

\* op, err, args, the draw log and coordinate_range describe the last
\* call only; the caller keeps a returned image until its next call
NoDrawLog ==
    /\ circles' = <<>> /\ resized' = None /\ shown' = NoImage /\ returned' = 0
    /\ pixels' = <<>>
    /\ heap' = SubSeq(heap, 1, 1)

\* the object the methods are called on
Self == [original_image |-> original_image,
         corner_points |-> corner_points,
         display_size |-> display_size]

\* the heap and the log after the draw call r
Drawn(r) ==
    /\ err' = r.err
    /\ heap' = IF r.returned = 0 THEN SubSeq(r.heap, 1, 1) ELSE r.heap
    /\ returned' = r.returned
    /\ circles' = r.circles
    /\ resized' = r.resized
    /\ shown' = r.shown
    /\ pixels' = r.pixels

\* drawer.draw(coordinates, color, size, show)
Draw(CoordLists, Colors, Sizes, Shows) ==
    /\ phase = "ready"
    /\ \E coordinates \in CoordLists, color \in Colors, size \in Sizes, show \in Shows :
         /\ Drawn(DrawCall(SubSeq(heap, 1, 1), Self, coordinates, color, size, show))
         /\ args' = [coordinates |-> coordinates, color |-> color,
                     size |-> size, show |-> show]
    /\ op' = "draw"
    /\ coordinate_range' = None
    /\ UNCHANGED <<env, phase, fields>>

\* drawer.get_coordinate_range()
GetCoordinateRange ==
    /\ phase = "ready"
    /\ coordinate_range' = [longitude |-> lon_range, latitude |-> lat_range]
    /\ err' = NoError
    /\ op' = "range"
    /\ args' = NoArgs
    /\ NoDrawLog
    /\ UNCHANGED <<env, phase, fields>>

Points == Around \X Around
FewPoints == {<<0, 2>>, <<1, 1>>, <<2, 0>>, <<0 - 1, 1>>}
Sizes == {0, 1}

DrawOnce == Draw({<<>>, <<<<1, 1>>>>}, {Green}, {0}, BOOLEAN)
DrawPoint == Draw({<<p>> : p \in Points}, {Green}, {0}, {FALSE})
DrawMany == Draw(SeqsUpTo(FewPoints, MaxCoords), {Green, Red}, Sizes, BOOLEAN)

NextFiles == Initialize \/ DrawOnce \/ GetCoordinateRange
NextPixel == Initialize \/ DrawPoint \/ GetCoordinateRange
NextDraw == Initialize \/ DrawMany \/ GetCoordinateRange

SpecFiles == InitFiles /\ [][NextFiles]_vars
SpecCalib == InitCalib /\ [][NextFiles]_vars
SpecResize == InitResize /\ [][NextFiles]_vars
SpecPixel == InitPixel /\ [][NextPixel]_vars
SpecDraw == InitDraw /\ [][NextDraw]_vars

----------------------------------------------------------------------------
(* Vocabulary of the properties *)

Built == phase # "unbuilt"
Ready == phase = "ready"
Drew == phase = "ready" /\ op = "draw"

LeftBottom == corner_points[1]
LeftTop == corner_points[2]
RightBottom == corner_points[4]
Original == heap[original_image]
Loaded == disk[image_path].image

Abs(n) == IF n < 0 THEN 0 - n ELSE n
Floor(p, q) == IF q > 0 THEN p \div q ELSE (0 - p) \div (0 - q)

\* x is the rational p / q with its fractional part discarded
IsTruncation(x, p, q) ==
    /\ Abs(x) * Abs(q) <= Abs(p)
    /\ Abs(p) < (Abs(x) + 1) * Abs(q)
    /\ (x > 0 => (p > 0) = (q > 0))
    /\ (x < 0 => (p > 0) # (q > 0))

Inside(px, image) ==
    /\ px[1] \in 0..(image.width - 1)
    /\ px[2] \in 0..(image.height - 1)

Covers(call, p) ==
    (p[1] - call.center[1]) * (p[1] - call.center[1])
      + (p[2] - call.center[2]) * (p[2] - call.center[2]) <= call.radius * call.radius

NonDegenerate == LeftTop[1] # RightBottom[1] /\ LeftTop[2] # RightBottom[2]

TheLon == args.coordinates[1][1]
TheLat == args.coordinates[1][2]

----------------------------------------------------------------------------
(* C1: construction fails with the missing-input-file error exactly when   *)
(* the listing does not hold exactly one .png file and exactly one .txt    *)
(* file, whatever the listing order.                                       *)

CountExt(ext) == Cardinality({i \in 1..Len(listing) : EndsWith(listing[i], ext)})
OnePair == CountExt(PngExt) = 1 /\ CountExt(TxtExt) = 1

C1_ExactlyOneOfEach ==
    Built => ((phase = "failed" /\ err = FileNotFoundError) <=> ~OnePair)

----------------------------------------------------------------------------
(* C2: given a readable image, construction succeeds exactly when the      *)
(* calibration file has exactly 4 marker lines and each of them carries    *)
(* exactly two comma-separated numbers after the last separator; then the  *)
(* corners are those four (longitude, latitude) pairs in file order;       *)
(* otherwise construction fails with the invalid-calibration error.        *)

HasMarker(line) == Contains(line, Marker)
CalibrationLines == disk[MTxt].lines
MarkerLines == SelectSeq(CalibrationLines, HasMarker)
Fields(line) == Split(Strip(AfterLast(line, Sep)), Comma)
TwoNumbers(line) ==
    /\ Len(Fields(line)) = 2
    /\ Float(Fields(line)[1]).ok
    /\ Float(Fields(line)[2]).ok
PairOf(line) == <<Float(Fields(line)[1]).value, Float(Fields(line)[2]).value>>
WellFormed ==
    /\ Len(MarkerLines) = 4
    /\ \A i \in 1..4 : TwoNumbers(MarkerLines[i])

C2_FourPairsOrInvalid ==
    Built =>
      /\ Ready <=> WellFormed
      /\ Ready => corner_points = [i \in 1..4 |-> PairOf(MarkerLines[i])]
      /\ phase = "failed" => err \in {FloatValueError, CornersValueError}

----------------------------------------------------------------------------
(* C3: after any sequence of draw calls the stored original image equals   *)
(* the image loaded at construction, the corners and the coordinate range  *)
(* are the ones read at construction, and the image a draw returns is a    *)
(* new object that differs from the loaded image only under the markers of *)
(* that same draw.                                                         *)

C3_OriginalUntouched ==
    Ready =>
      /\ Original = Loaded
      /\ corner_points = <<<<0, 0>>, <<0, 2>>, <<2, 2>>, <<2, 0>>>>
      /\ lon_range = <<0, 2>> /\ lat_range = <<0, 2>>
      /\ (op = "draw" /\ err = NoError) =>
           /\ returned \in (1..Len(heap)) \ {original_image}
           /\ DOMAIN heap[returned].pix = DOMAIN Loaded.pix
           /\ \A p \in DOMAIN Loaded.pix :
                heap[returned].pix[p] # Loaded.pix[p]
                  => \E i \in 1..Len(circles) : Covers(circles[i], p)

C3_Witness ==
    /\ Drew /\ err = NoError /\ Len(circles) = 2
    /\ \E p \in DOMAIN Loaded.pix : heap[returned].pix[p] # Loaded.pix[p]
    /\ \E p \in DOMAIN Loaded.pix : heap[returned].pix[p] = Loaded.pix[p]

----------------------------------------------------------------------------
(* C4: a draw processes every coordinate of its list, raises nothing, and  *)
(* draws a marker of the given radius and colour centred at (x, y) exactly *)
(* for the coordinates whose pixel position has 0 <= x < width and         *)
(* 0 <= y < height, in list order; the others leave no marker.             *)

RECURSIVE Keep(_, _)
Keep(pxs, image) ==
    IF pxs = <<>> THEN <<>>
    ELSE IF Inside(Head(pxs), image) THEN <<Head(pxs)>> \o Keep(Tail(pxs), image)
    ELSE Keep(Tail(pxs), image)

C4_MarkersExactlyInBounds ==
    Drew =>
      /\ err = NoError
      /\ Len(pixels) = Len(args.coordinates)
      /\ [i \in 1..Len(circles) |-> circles[i].center] = Keep(pixels, Original)
      /\ \A i \in 1..Len(circles) :
           /\ circles[i].radius = args.size
           /\ circles[i].color = args.color
           /\ heap[returned].pix[circles[i].center] = args.color

C4_Witness ==
    /\ Drew /\ Len(args.coordinates) = 2 /\ Len(circles) = 1
    /\ ~Inside(pixels[1], Original)
    /\ circles[1].center = pixels[2]

----------------------------------------------------------------------------
(* C5, as claimed: the transform returns the floor of the scaled position  *)
(* on each axis, also where the scaled position is negative.               *)

C5_Floor ==
    (Drew /\ NonDegenerate) =>
      /\ err = NoError
      /\ pixels = << << Floor((TheLon - LeftTop[1]) * Original.width,
                              RightBottom[1] - LeftTop[1]),
                        Floor((TheLat - LeftTop[2]) * Original.height,
                              RightBottom[2] - LeftTop[2]) >> >>

(* C5, amended: the transform returns the scaled position on each axis     *)
(* truncated toward zero (its floor where it is not negative, its ceiling  *)
(* where it is negative); only the left-top and right-bottom corners enter *)
(* the result.                                                             *)

C5_Truncation ==
    (Drew /\ NonDegenerate) =>
      /\ err = NoError
      /\ Len(pixels) = 1
      /\ IsTruncation(pixels[1][1], (TheLon - LeftTop[1]) * Original.width,
                      RightBottom[1] - LeftTop[1])
      /\ IsTruncation(pixels[1][2], (TheLat - LeftTop[2]) * Original.height,
                      RightBottom[2] - LeftTop[2])

\* a coordinate left of the left-top corner by less than one pixel lands in column 0
C5_Witness ==
    /\ Drew /\ NonDegenerate /\ err = NoError
    /\ LeftTop[1] < RightBottom[1] /\ TheLon < LeftTop[1]
    /\ pixels[1][1] = 0

----------------------------------------------------------------------------
(* C6: with left-top and right-bottom differing in longitude and in        *)
(* latitude, the left-top corner maps to (0, 0) and gets a marker there,   *)
(* and the right-bottom corner maps to (width, height) and gets no marker. *)

C6_CornersRoundTrip ==
    (Drew /\ NonDegenerate) =>
      /\ args.coordinates = <<LeftTop>> =>
           /\ err = NoError
           /\ pixels = << <<0, 0>> >>
           /\ Len(circles) = 1 /\ circles[1].center = <<0, 0>>
           /\ heap[returned].pix[<<0, 0>>] = args.color
      /\ args.coordinates = <<RightBottom>> =>
           /\ err = NoError
           /\ pixels = << <<Original.width, Original.height>> >>
           /\ circles = <<>>
           /\ heap[returned] = Loaded

C6_Witness ==
    /\ Drew /\ NonDegenerate /\ err = NoError
    /\ args.coordinates = <<RightBottom>>
    /\ Original.width # Original.height
    /\ circles = <<>>

----------------------------------------------------------------------------
(* C7: construction accepts a calibration whose left-top and right-bottom  *)
(* corners share a longitude or a latitude, and on every constructed       *)
(* mapper a draw with show = false returns an image without raising.       *)

C7_DrawNeverRaises ==
    /\ Built => Ready
    /\ (Drew /\ ~args.show) => (err = NoError /\ returned # 0)

----------------------------------------------------------------------------
(* C8: for every image size and canvas size, display scaling returns a     *)
(* canvas of exactly the target size; the resized image occupies           *)
(* [xOff, xOff+newW) x [yOff, yOff+newH) inside the canvas with            *)
(* xOff = floor((targetW - newW) / 2), yOff = floor((targetH - newH) / 2), *)
(* the left/top padding is at most the right/bottom padding and they       *)
(* differ by at most one; every pixel outside the region is gray 128.      *)

C8_CanvasAndPadding ==
    (Drew /\ args.show) =>
      LET xOff == (display_size[1] - resized[1]) \div 2
          yOff == (display_size[2] - resized[2]) \div 2
          right == display_size[1] - resized[1] - xOff
          bottom == display_size[2] - resized[2] - yOff
      IN  /\ err = NoError
          /\ shown.width = display_size[1] /\ shown.height = display_size[2]
          /\ DOMAIN shown.pix = Pixels(display_size[1], display_size[2])
          /\ 0 <= xOff /\ xOff + resized[1] <= display_size[1]
          /\ 0 <= yOff /\ yOff + resized[2] <= display_size[2]
          /\ xOff <= right /\ right - xOff <= 1
          /\ yOff <= bottom /\ bottom - yOff <= 1
          /\ \A p \in DOMAIN shown.pix :
               ~(/\ p[1] \in xOff..(xOff + resized[1] - 1)
                 /\ p[2] \in yOff..(yOff + resized[2] - 1))
                 => shown.pix[p] = <<128, 128, 128>>

----------------------------------------------------------------------------
(* C9: display scaling resizes to newW = floor(srcW * s) and               *)
(* newH = floor(srcH * s) with s = min(targetW / srcW, targetH / srcH);    *)
(* 1 <= newW <= targetW, 1 <= newH <= targetH, one of the two equals the   *)
(* target, and each is less than one pixel below srcW * s and srcH * s.    *)

C9_ScaledSize ==
    (Drew /\ args.show) =>
      LET srcW == Original.width
          srcH == Original.height
          targetW == display_size[1]
          targetH == display_size[2]
          \* s = sn / sd
          sn == IF targetW * srcH <= targetH * srcW THEN targetW ELSE targetH
          sd == IF targetW * srcH <= targetH * srcW THEN srcW ELSE srcH
      IN  /\ resized # None
          /\ resized[1] = (srcW * sn) \div sd /\ resized[2] = (srcH * sn) \div sd
          /\ 1 <= resized[1] /\ resized[1] <= targetW
          /\ 1 <= resized[2] /\ resized[2] <= targetH
          /\ resized[1] = targetW \/ resized[2] = targetH
          /\ srcW * sn - resized[1] * sd < sd
          /\ srcH * sn - resized[2] * sd < sd

----------------------------------------------------------------------------
(* C10, as claimed: when the reported ranges are non-empty, every          *)
(* coordinate with lonMin <= lon < lonMax and latMin < lat <= latMax maps  *)
(* inside the image and receives a marker.                                 *)

ReportedRange == [longitude |-> <<LeftTop[1], RightBottom[1]>>,
                  latitude |-> <<LeftBottom[2], LeftTop[2]>>]
NonEmptyRange == lon_range[1] < lon_range[2] /\ lat_range[1] < lat_range[2]
InRange == /\ lon_range[1] <= TheLon /\ TheLon < lon_range[2]
           /\ lat_range[1] < TheLat /\ TheLat <= lat_range[2]
Marked == /\ err = NoError
          /\ Inside(pixels[1], Original)
          /\ Len(circles) = 1 /\ circles[1].center = pixels[1]

C10_RangeIsDrawable ==
    /\ (Ready /\ op = "range") => coordinate_range = ReportedRange
    /\ (Drew /\ NonEmptyRange /\ InRange) => Marked

(* C10, amended: the same, for the mappers whose right-bottom latitude is  *)
(* not above the left-bottom latitude (as when the two bottom corners      *)
(* share a latitude).                                                      *)

C10_RangeIsDrawableBelow ==
    /\ (Ready /\ op = "range") => coordinate_range = ReportedRange
    /\ (Drew /\ NonEmptyRange /\ InRange /\ RightBottom[2] <= LeftBottom[2]) => Marked

C10_Witness ==
    /\ Drew /\ NonEmptyRange /\ InRange /\ RightBottom[2] < LeftBottom[2]
    /\ Marked

====
